---- MODULE Spec2Model ----
(***************************************************************************)
(* The algebraic-structure analyzer of tools.py: six pure functions over a *)
(* finite set (set_elements, an ordered list of labels) and an operation   *)
(* table (operation_table, a list of rows of labels).                      *)
(*                                                                         *)
(* Python values are modelled as tagged pairs, so that the integer 0, the  *)
(* empty string and None stay three different values that are all falsy:   *)
(*     PyInt(n) = <<"int", n>>   PyStr(s) = <<"str", s>>   PyNone          *)
(*     PyBool(b) = <<"bool", b>>   PyList(seq) = <<"list", seq>>           *)
(*     PyDict(items) = <<"dict", items>>                                   *)
(* The payload of a value v is v[2].  Python lists are sequences; Python   *)
(* index i is TLA+ index i + 1.  A Python tuple (x, y) is <<x, y>>.        *)
(* A call either returns a value or raises: Return(v) / Raise(e).          *)
(***************************************************************************)
EXTENDS Integers, Sequences, FiniteSets, TLC

VARIABLES set_elements, operation_table, called, result

\* The run of the graph that build_agent compiles (agent.py): the node that
\* runs next, the node that ran in the latest step, the number of steps run,
\* the tool calls of the latest assistant message and the tool messages that
\* answer them; whether the tools node of the installed langgraph turns an
\* exception of a tool into an error message (handle_tool_errors); and the
\* exception that broke the run off, "" while there is none.
VARIABLES node, ran, steps, tool_calls, tool_messages, handle_tool_errors,
          exception

agent_vars ==
    <<node, ran, steps, tool_calls, tool_messages, handle_tool_errors,
      exception>>

vars == <<set_elements, operation_table, called, result, agent_vars>>

(***************************************************************************)
(* Bounds of the model.                                                    *)
(***************************************************************************)
\* Number of labels outside set_elements that a non-closed table may hold.
MaxOut == 1

\* Largest number of tool calls in one assistant message.
MaxCalls == 2

\* The recursion limit of a run: the largest number of steps (node
\* executions) the compiled graph runs before it breaks the run off.  The
\* caller of the graph sets it (langgraph's default is 25); the model keeps
\* it small.
MaxSteps == 5

(***************************************************************************)
(* Python values.                                                          *)
(***************************************************************************)
PyInt(n) == <<"int", n>>

PyStr(s) == <<"str", s>>

PyNone == <<"NoneType", 0>>

PyBool(b) == <<"bool", b>>

PyList(seq) == <<"list", seq>>

\* A dict is the sequence of its (key, value) items in insertion order.
PyDict(items) == <<"dict", items>>

IsStr(v) == v[1] = "str"

IsInt(v) == v[1] = "int"

\* Python truthiness of a value: `not v` is ~Truthy(v).
Truthy(v) ==
    IF v[1] = "int" THEN v[2] # 0
    ELSE IF v[1] = "str" THEN v[2] # ""
    ELSE FALSE

\* The outcome of a call: a returned value, or the name of the exception raised.
Return(v) == [raised |-> "", value |-> v]

Raise(e) == [raised |-> e, value |-> PyNone]

NotCalled == [raised |-> "", value |-> PyNone]

(***************************************************************************)
(* The labels and inputs that are enumerated.                              *)
(***************************************************************************)
\* The strings that occur as labels, in ascending order of Python's string
\* comparison (code point order, the empty string first).
StrOrder == <<"", "a", "b", "c", "d">>

\* The labels of the sets: two integers (0 is falsy) and three strings (the
\* empty string is falsy, and is the value find_identity_element returns for
\* "no identity").
IntLabels == {PyInt(0), PyInt(1)}

StrLabels == {PyStr(""), PyStr("a"), PyStr("b")}

\* Labels that a non-closed table holds although they are not in the set.
OutNames == <<"c", "d">>

OutLabels == {PyStr(OutNames[k]) : k \in 1..MaxOut}

\* Every ordering of n distinct labels of L: a set_elements of size n.
Orderings(L, n) ==
    {s \in [1..n -> L] : \A i, j \in 1..n : i # j => s[i] # s[j]}

\* The sets that are analysed: distinct labels of one type, in every order,
\* from one label to all labels of the type.
SetChoices ==
    UNION {Orderings(IntLabels, n) : n \in 1..Cardinality(IntLabels)}
        \cup UNION {Orderings(StrLabels, n) : n \in 1..Cardinality(StrLabels)}

Range(s) == {s[i] : i \in 1..Len(s)}

\* Every n-by-n table with entries in E.
TablesOver(n, E) == [1..n -> [1..n -> E]]

\* Closure: every entry of the table is an element of the set.
Closed(S, T) == \A i, j \in 1..Len(S) : T[i][j] \in Range(S)

\* The tables paired with a set S: every closed table, and for the sizes of
\* OpenSizes every table that may also hold labels outside S.
OpenSizes == {1, 2}

TableChoices(S) ==
    TablesOver(Len(S), Range(S))
        \cup (IF Len(S) \in OpenSizes
                THEN TablesOver(Len(S), Range(S) \cup OutLabels)
                ELSE {})

(***************************************************************************)
(* is_commutative (tools.py 261-276).                                      *)
(***************************************************************************)
\* The double loop `for i in range(n): for j in range(n)` from its m-th
\* iteration on (m = i * n + j): False at the first asymmetric pair.
\* Mutant: `return True` indented into the loop body, so the scan ends after
\* its first comparison.
is_commutative_from_early_return(S, T, m) ==
    LET n == Len(S)
        i == (m \div n) + 1
        j == (m % n) + 1
    IN  IF m >= n * n THEN TRUE
        ELSE IF T[i][j] # T[j][i] THEN FALSE
        ELSE TRUE

RECURSIVE is_commutative_from(_, _, _)
is_commutative_from(S, T, m) ==
    LET n == Len(S)
        i == (m \div n) + 1
        j == (m % n) + 1
    IN  IF m >= n * n THEN TRUE
        ELSE IF T[i][j] # T[j][i] THEN FALSE
        ELSE is_commutative_from(S, T, m + 1)

is_commutative(S, T) == Return(PyBool(is_commutative_from(S, T, 0)))

(***************************************************************************)
(* commutativity_counterexample_pairs (tools.py 279-295).                  *)
(***************************************************************************)
\* The same double loop, appending (set_elements[i], set_elements[j]) to
\* `pairs` at every asymmetric pair.
\* Mutant: the inner loop runs over j > i only, so a violating pair is
\* reported without its mirror.
RECURSIVE pairs_from_upper_triangle(_, _, _, _)
pairs_from_upper_triangle(S, T, m, pairs) ==
    LET n == Len(S)
        i == (m \div n) + 1
        j == (m % n) + 1
    IN  IF m >= n * n THEN pairs
        ELSE IF j > i /\ T[i][j] # T[j][i]
             THEN pairs_from_upper_triangle(S, T, m + 1, Append(pairs, <<S[i], S[j]>>))
        ELSE pairs_from_upper_triangle(S, T, m + 1, pairs)

RECURSIVE pairs_from(_, _, _, _)
pairs_from(S, T, m, pairs) ==
    LET n == Len(S)
        i == (m \div n) + 1
        j == (m % n) + 1
    IN  IF m >= n * n THEN pairs
        ELSE IF T[i][j] # T[j][i]
             THEN pairs_from(S, T, m + 1, Append(pairs, <<S[i], S[j]>>))
        ELSE pairs_from(S, T, m + 1, pairs)

commutativity_counterexample_pairs(S, T) ==
    Return(PyList(pairs_from(S, T, 0, <<>>)))

(***************************************************************************)
(* commutativity_counterexample_elements (tools.py 298-315).               *)
(***************************************************************************)
\* The double loop adding set_elements[i] and set_elements[j] to the set
\* `involved` at every asymmetric pair.
RECURSIVE involved_from(_, _, _, _)
involved_from(S, T, m, involved) ==
    LET n == Len(S)
        i == (m \div n) + 1
        j == (m % n) + 1
    IN  IF m >= n * n THEN involved
        ELSE IF T[i][j] # T[j][i]
             THEN involved_from(S, T, m + 1, involved \cup {S[i], S[j]})
        ELSE involved_from(S, T, m + 1, involved)

\* Position of a string in Python's string order.
StrRank(s) == CHOOSE k \in 1..Len(StrOrder) : StrOrder[k] = s

\* Python's `a < b` on two values of one type.
PyLess(a, b) ==
    IF IsInt(a) THEN a[2] < b[2] ELSE StrRank(a[2]) < StrRank(b[2])

\* `<` is defined between all values of the collection (one type, not None).
Orderable(vals) ==
    \/ \A v \in vals : IsInt(v)
    \/ \A v \in vals : IsStr(v)

\* sorted(vals) for orderable, distinct vals: ascending by PyLess.
RECURSIVE sorted(_)
sorted(vals) ==
    IF vals = {} THEN <<>>
    ELSE LET least == CHOOSE v \in vals : \A w \in vals \ {v} : PyLess(v, w)
         IN  <<least>> \o sorted(vals \ {least})

\* ",".join(items) for a list of strings.
RECURSIVE join(_)
join(items) ==
    IF Len(items) = 0 THEN ""
    ELSE IF Len(items) = 1 THEN items[1][2]
    ELSE items[1][2] \o "," \o join(Tail(items))

\* ",".join(sorted(involved)): sorted raises TypeError on values of mixed
\* types, str.join raises TypeError on an item that is not a str.
commutativity_counterexample_elements(S, T) ==
    LET involved == involved_from(S, T, 0, {})
    IN  IF ~Orderable(involved) THEN Raise("TypeError")
        ELSE IF \E v \in involved : ~IsStr(v) THEN Raise("TypeError")
        ELSE Return(PyStr(join(sorted(involved))))

(***************************************************************************)
(* is_associative (tools.py 318-341).                                      *)
(***************************************************************************)
\* idx = {e: i for i, e in enumerate(set_elements)}: a later position of an
\* equal label overwrites an earlier one.
InIdx(S, e) == \E i \in 1..Len(S) : S[i] = e

idx(S, e) == CHOOSE i \in 1..Len(S) : S[i] = e /\ \A k \in (i + 1)..Len(S) : S[k] # e

\* The triple loop from its m-th iteration on (m = (i * n + j) * n + k), in
\* statement order: idx[a], then idx[b], then the comparison.
\* Mutant: left = operation_table[k][a_idx], the indices swapped.
RECURSIVE is_associative_from_swapped(_, _, _)
is_associative_from_swapped(S, T, m) ==
    LET n == Len(S)
        i == (m \div (n * n)) + 1
        j == ((m \div n) % n) + 1
        k == (m % n) + 1
        a == T[i][j]
        b == T[j][k]
    IN  IF m >= n * n * n THEN Return(PyBool(TRUE))
        ELSE IF ~InIdx(S, a) THEN Raise("KeyError")
        ELSE IF ~InIdx(S, b) THEN Raise("KeyError")
        ELSE IF T[k][idx(S, a)] # T[i][idx(S, b)] THEN Return(PyBool(FALSE))
        ELSE is_associative_from_swapped(S, T, m + 1)

\* Mutant: idx.get(a, 0) and idx.get(b, 0), a default index instead of a
\* failing lookup.
RECURSIVE is_associative_from_default_index(_, _, _)
is_associative_from_default_index(S, T, m) ==
    LET n == Len(S)
        i == (m \div (n * n)) + 1
        j == ((m \div n) % n) + 1
        k == (m % n) + 1
        a == T[i][j]
        b == T[j][k]
        a_idx == IF InIdx(S, a) THEN idx(S, a) ELSE 1
        b_idx == IF InIdx(S, b) THEN idx(S, b) ELSE 1
    IN  IF m >= n * n * n THEN Return(PyBool(TRUE))
        ELSE IF T[a_idx][k] # T[i][b_idx] THEN Return(PyBool(FALSE))
        ELSE is_associative_from_default_index(S, T, m + 1)

RECURSIVE is_associative_from(_, _, _)
is_associative_from(S, T, m) ==
    LET n == Len(S)
        i == (m \div (n * n)) + 1
        j == ((m \div n) % n) + 1
        k == (m % n) + 1
        a == T[i][j]
        b == T[j][k]
    IN  IF m >= n * n * n THEN Return(PyBool(TRUE))
        ELSE IF ~InIdx(S, a) THEN Raise("KeyError")
        ELSE IF ~InIdx(S, b) THEN Raise("KeyError")
        ELSE IF T[idx(S, a)][k] # T[i][idx(S, b)] THEN Return(PyBool(FALSE))
        ELSE is_associative_from(S, T, m + 1)

is_associative(S, T) == is_associative_from(S, T, 0)

(***************************************************************************)
(* find_identity_element (tools.py 344-364).                               *)
(***************************************************************************)
\* The inner loop over j from j on: False at the first j where row i or
\* column i differs from set_elements (the `break`).
\* Mutant: only the row is compared (a left identity passes).
RECURSIVE is_identity_from_row_only(_, _, _, _)
is_identity_from_row_only(S, T, i, j) ==
    IF j > Len(S) THEN TRUE
    ELSE IF T[i][j] # S[j] THEN FALSE
    ELSE is_identity_from_row_only(S, T, i, j + 1)

RECURSIVE is_identity_from(_, _, _, _)
is_identity_from(S, T, i, j) ==
    IF j > Len(S) THEN TRUE
    ELSE IF T[i][j] # S[j] \/ T[j][i] # S[j] THEN FALSE
    ELSE is_identity_from(S, T, i, j + 1)

\* The outer loop over i from i on: the first candidate that passes, or "".
RECURSIVE identity_from(_, _, _)
identity_from(S, T, i) ==
    IF i > Len(S) THEN PyStr("")
    ELSE IF is_identity_from(S, T, i, 1) THEN S[i]
    ELSE identity_from(S, T, i + 1)

find_identity_element(S, T) == Return(identity_from(S, T, 1))

(***************************************************************************)
(* find_inverses (tools.py 367-389).                                       *)
(***************************************************************************)
\* d[k] = v on the items of a dict: a new key is appended, an existing key
\* keeps its position.
DictSet(d, k, v) ==
    IF \E p \in 1..Len(d) : d[p][1] = k
    THEN [p \in 1..Len(d) |-> IF d[p][1] = k THEN <<k, v>> ELSE d[p]]
    ELSE Append(d, <<k, v>>)

\* {e: None for e in set_elements}, from position i on.
RECURSIVE all_none_from(_, _, _)
all_none_from(S, i, d) ==
    IF i > Len(S) THEN d
    ELSE all_none_from(S, i + 1, DictSet(d, S[i], PyNone))

\* The inner loop over j from j on: the first set_elements[j] with
\* T[i][j] == identity and T[j][i] == identity, or None.
RECURSIVE found_from(_, _, _, _, _)
found_from(S, T, identity, i, j) ==
    IF j > Len(S) THEN PyNone
    ELSE IF T[i][j] = identity /\ T[j][i] = identity THEN S[j]
    ELSE found_from(S, T, identity, i, j + 1)

\* The outer loop over i from i on, filling `inverses`.
RECURSIVE inverses_from(_, _, _, _, _)
inverses_from(S, T, identity, i, inverses) ==
    IF i > Len(S) THEN inverses
    ELSE inverses_from(S, T, identity, i + 1,
             DictSet(inverses, S[i], found_from(S, T, identity, i, 1)))

\* find_identity_element(set_elements, operation_table) in line 378.  The
\* name find_identity_element is bound at module level (lines 344-345) to the
\* object that the @tool decorator returns, not to the function under it, and
\* the object is called here with two positional arguments.  The tool object
\* does not run the function body on such a call: depending on the installed
\* langchain-core the call raises AttributeError (the table is taken as the
\* list of callback handlers), ValidationError (the set is taken as the tool
\* input) or TypeError (the object is not callable).  It returns on no input.
ToolObjectErrors == {"AttributeError", "ValidationError", "TypeError"}

call_tool_object(S, T) == {Raise(e) : e \in ToolObjectErrors}

\* Lines 379-389, for an outcome of the call in line 378: an exception of the
\* call leaves find_inverses; `if not identity` tests the truthiness of the
\* value the call returned.
find_inverses_from_identity(called_identity, S, T) ==
    IF called_identity.raised # "" THEN called_identity
    ELSE LET identity == called_identity.value
         IN  IF ~Truthy(identity)
             THEN Return(PyDict(all_none_from(S, 1, <<>>)))
             ELSE Return(PyDict(inverses_from(S, T, identity, 1, <<>>)))

\* The outcomes of find_inverses: one for each outcome of the call in line 378.
find_inverses(S, T) ==
    {find_inverses_from_identity(called_identity, S, T) :
        called_identity \in call_tool_object(S, T)}

(***************************************************************************)
(* State machine: one (set_elements, operation_table) is supplied, and one *)
(* of the six analyzer functions is applied to it.                         *)
(***************************************************************************)
\* No run of the graph is under way while a function is applied directly.
NoRun ==
    /\ node = "__start__"
    /\ ran = "__start__"
    /\ steps = 0
    /\ tool_calls = <<>>
    /\ tool_messages = <<>>
    /\ handle_tool_errors = TRUE
    /\ exception = ""

Init ==
    /\ set_elements \in SetChoices
    /\ operation_table \in TableChoices(set_elements)
    /\ called = "none"
    /\ result = NotCalled
    /\ NoRun

Call(name, outcome) ==
    /\ called = "none"
    /\ called' = name
    /\ result' = outcome
    /\ UNCHANGED <<set_elements, operation_table, agent_vars>>

CallIsCommutative ==
    Call("is_commutative", is_commutative(set_elements, operation_table))

CallCounterexamplePairs ==
    Call("commutativity_counterexample_pairs",
         commutativity_counterexample_pairs(set_elements, operation_table))

CallCounterexampleElements ==
    Call("commutativity_counterexample_elements",
         commutativity_counterexample_elements(set_elements, operation_table))

CallIsAssociative ==
    Call("is_associative", is_associative(set_elements, operation_table))

CallFindIdentityElement ==
    Call("find_identity_element",
         find_identity_element(set_elements, operation_table))

CallFindInverses ==
    \E outcome \in find_inverses(set_elements, operation_table) :
        Call("find_inverses", outcome)

Next ==
    \/ CallIsCommutative
    \/ CallCounterexamplePairs
    \/ CallCounterexampleElements
    \/ CallIsAssociative
    \/ CallFindIdentityElement
    \/ CallFindInverses

Spec == Init /\ [][Next]_vars

(***************************************************************************)
(* Vocabulary of the properties, over the supplied set and table.          *)
(***************************************************************************)
N == Len(set_elements)

Indices == 1..N

IsClosed == Closed(set_elements, operation_table)

\* Position of a label of the set in set_elements.
Pos(e) == CHOOSE i \in Indices : set_elements[i] = e

\* T[i][j] != T[j][i].
Asymmetric(i, j) == operation_table[i][j] # operation_table[j][i]

\* The asymmetric index pairs, as row-major ranks (i - 1) * N + (j - 1).
AsymmetricRanks ==
    {(i - 1) * N + (j - 1) : <<i, j>> \in {q \in Indices \X Indices : Asymmetric(q[1], q[2])}}

RankPair(m) == <<set_elements[(m \div N) + 1], set_elements[(m % N) + 1]>>

\* Row i and column i of the table both repeat set_elements.
TwoSidedIdentity(i) ==
    \A j \in Indices :
        /\ operation_table[i][j] = set_elements[j]
        /\ operation_table[j][i] = set_elements[j]

IdentityIndices == {i \in Indices : TwoSidedIdentity(i)}

FirstOf(indices) == CHOOSE i \in indices : \A k \in indices : i <= k

NoIdentity == PyStr("")

\* The positions j with T[i][j] == e and T[j][i] == e.
InverseIndices(i, e) ==
    {j \in Indices : operation_table[i][j] = e /\ operation_table[j][i] = e}

\* C4 is_commutative returns true exactly when the table is symmetric
\* (T[i][j] == T[j][i] for all i, j), and that boolean equals "the list of
\* counterexample pairs is empty".
ThmC4 ==
    called = "is_commutative" =>
        /\ result.raised = ""
        /\ result.value = PyBool(\A i, j \in Indices : ~Asymmetric(i, j))
        /\ result.value =
             PyBool(commutativity_counterexample_pairs(
                        set_elements, operation_table).value = PyList(<<>>))

WitC4 ==
    /\ called = "is_commutative"
    /\ N = 3
    /\ result = Return(PyBool(FALSE))
    /\ ~Asymmetric(1, 2)
    /\ ~Asymmetric(1, 3)
    /\ Asymmetric(2, 3)

\* C5 commutativity_counterexample_pairs returns the pairs (S[i], S[j]) of
\* exactly the index pairs with T[i][j] != T[j][i], each once, in row-major
\* order, so a violating pair and its mirror are two entries.
ThmC5 ==
    called = "commutativity_counterexample_pairs" =>
        /\ result.raised = ""
        /\ result.value[1] = "list"
        /\ LET pairs == result.value[2]
           IN  /\ Len(pairs) = Cardinality(AsymmetricRanks)
               /\ \A m \in AsymmetricRanks :
                    pairs[Cardinality({x \in AsymmetricRanks : x < m}) + 1] = RankPair(m)
               /\ \A i, j \in Indices :
                    Asymmetric(i, j) =>
                       \E p, q \in 1..Len(pairs) :
                           /\ p # q
                           /\ pairs[p] = <<set_elements[i], set_elements[j]>>
                           /\ pairs[q] = <<set_elements[j], set_elements[i]>>

WitC5 ==
    /\ called = "commutativity_counterexample_pairs"
    /\ N = 3
    /\ Len(result.value[2]) = 4
    /\ result.value[2][1] = <<set_elements[1], set_elements[3]>>
    /\ result.value[2][4] = <<set_elements[3], set_elements[2]>>

\* C2 On a closed table is_associative returns true exactly when
\* T[idx(T[i][j])][k] == T[i][idx(T[j][k])] for all i, j, k.
ThmC2 ==
    called = "is_associative" /\ IsClosed =>
        /\ result.raised = ""
        /\ result.value =
             PyBool(\A i, j, k \in Indices :
                       operation_table[Pos(operation_table[i][j])][k]
                           = operation_table[i][Pos(operation_table[j][k])])

WitC2 ==
    /\ called = "is_associative"
    /\ IsClosed
    /\ N = 3
    /\ result = Return(PyBool(TRUE))
    /\ Asymmetric(2, 3)

\* C7 (as claimed) On a table with an entry outside the set is_associative
\* always ends in a lookup failure, wherever the entry sits.
OrigC7 ==
    called = "is_associative" /\ ~IsClosed => result.raised = "KeyError"

\* The triple (i, j, k) looks up only labels of the set and its two sides
\* differ.
ViolatingTriple(i, j, k) ==
    /\ operation_table[i][j] \in Range(set_elements)
    /\ operation_table[j][k] \in Range(set_elements)
    /\ operation_table[Pos(operation_table[i][j])][k]
           # operation_table[i][Pos(operation_table[j][k])]

\* The position of the triple (i, j, k) in the scan: i outermost, k innermost.
TripleRank(i, j, k) == ((i - 1) * N + (j - 1)) * N + (k - 1)

\* The triple (i, j, k) looks up a label that is not in the set.
LooksUpOutside(i, j, k) ==
    \/ operation_table[i][j] \notin Range(set_elements)
    \/ operation_table[j][k] \notin Range(set_elements)

\* Some triple violates associativity and no triple before it in the scan
\* looks up a label that is not in the set.
ViolationBeforeOutside ==
    \E i, j, k \in Indices :
        /\ ViolatingTriple(i, j, k)
        /\ \A i2, j2, k2 \in Indices :
              TripleRank(i2, j2, k2) < TripleRank(i, j, k)
                  => ~LooksUpOutside(i2, j2, k2)

\* C7 (amended) On a table with an entry outside the set is_associative never
\* returns true.  It returns false exactly when the scan in (i, j, k) order
\* meets a triple of in-set lookups that violates associativity before it
\* meets a triple that looks up a label outside the set; in every other case
\* it ends in a lookup failure.
ThmC7 ==
    called = "is_associative" /\ ~IsClosed =>
        IF ViolationBeforeOutside
        THEN result = Return(PyBool(FALSE))
        ELSE result = Raise("KeyError")

WitC7 ==
    /\ called = "is_associative"
    /\ ~IsClosed
    /\ N = 2
    /\ operation_table[1][1] \in Range(set_elements)
    /\ operation_table[2][2] \notin Range(set_elements)
    /\ result.raised = "KeyError"
    /\ \E i, j, k \in Indices : ViolatingTriple(i, j, k)

\* C3 (as claimed) find_identity_element returns the first S[i] whose row and
\* column both repeat S; it returns "" exactly when no index does; on a
\* closed table at most one index does.
OrigC3 ==
    called = "find_identity_element" =>
        /\ result.raised = ""
        /\ IdentityIndices # {} =>
              result.value = set_elements[FirstOf(IdentityIndices)]
        /\ (result.value = NoIdentity) <=> (IdentityIndices = {})
        /\ IsClosed => Cardinality(IdentityIndices) <= 1

\* C3 (amended) find_identity_element returns the first S[i] whose row and
\* column both repeat S, and "" when no index does; it returns "" only when
\* no index does or when that first label is itself the empty string; on a
\* closed table at most one index does.
ThmC3 ==
    called = "find_identity_element" =>
        /\ result.raised = ""
        /\ IdentityIndices # {} =>
              result.value = set_elements[FirstOf(IdentityIndices)]
        /\ IdentityIndices = {} => result.value = NoIdentity
        /\ result.value = NoIdentity =>
              \/ IdentityIndices = {}
              \/ set_elements[FirstOf(IdentityIndices)] = PyStr("")
        /\ IsClosed => Cardinality(IdentityIndices) <= 1

WitC3 ==
    /\ called = "find_identity_element"
    /\ N = 3
    /\ IdentityIndices = {3}
    /\ result.value = set_elements[3]
    /\ result.value # NoIdentity

\* The mapping that takes each S[i] to the first S[j] with T[i][j] == e and
\* T[j][i] == e, or to None: one (key, value) item per element, in S's order.
InversesFor(e) ==
    [i \in Indices |->
        <<set_elements[i],
          IF InverseIndices(i, e) = {} THEN PyNone
          ELSE set_elements[FirstOf(InverseIndices(i, e))]>>]

\* C1 (as claimed) On a closed table with a two-sided identity e, whatever
\* the type of the labels, find_inverses maps each S[i] to the first S[j] with
\* T[i][j] == e and T[j][i] == e, or to None.
OrigC1 ==
    called = "find_inverses" /\ IsClosed /\ IdentityIndices # {} =>
        /\ result.raised = ""
        /\ result.value = PyDict(InversesFor(set_elements[FirstOf(IdentityIndices)]))

\* C8 (as claimed) On a table with an entry outside the set find_inverses
\* ends in a lookup failure instead of returning a mapping.
OrigC8 ==
    called = "find_inverses" /\ ~IsClosed => result.raised = "KeyError"

\* C9 (as claimed) find_inverses returns a mapping with exactly one item per
\* element of S, in S's order; when find_identity_element returns "" every
\* value of the mapping is None.
OrigC9 ==
    called = "find_inverses" =>
        /\ result.raised = ""
        /\ result.value[1] = "dict"
        /\ Len(result.value[2]) = N
        /\ \A i \in Indices : result.value[2][i][1] = set_elements[i]
        /\ find_identity_element(set_elements, operation_table).value = NoIdentity =>
              \A i \in Indices : result.value[2][i][2] = PyNone

\* The labels that occur in either position of an asymmetric pair.
InvolvedLabels ==
    {set_elements[i] : i \in {k \in Indices : \E j \in Indices : Asymmetric(k, j)}}

\* A label as it is written in a listing.
LabelText(v) == IF IsStr(v) THEN v ELSE PyStr(ToString(v[2]))

\* The labels of vals, each once, in ascending order, comma-separated.
Listing(vals) ==
    LET ascending == sorted(vals)
    IN  join([p \in 1..Len(ascending) |-> LabelText(ascending[p])])

\* C6 (as claimed) commutativity_counterexample_elements lists exactly the
\* labels that occur in some counterexample pair, each once, in ascending
\* order, comma-separated, and returns "" exactly when the table is symmetric.
OrigC6 ==
    called = "commutativity_counterexample_elements" =>
        /\ result.raised = ""
        /\ result.value = PyStr(Listing(InvolvedLabels))
        /\ (result.value = PyStr("")) <=> (\A i, j \in Indices : ~Asymmetric(i, j))

\* The positions of a set of size n in another order.
Reorderings(n) ==
    {p \in [1..n -> 1..n] : \A k, l \in 1..n : k # l => p[k] # p[l]}

\* S'[k] = S[p(k)] and T'[k][l] = T[p(k)][p(l)].
ReorderedSet(p) == [k \in Indices |-> set_elements[p[k]]]

ReorderedTable(p) ==
    [k \in Indices |-> [l \in Indices |-> operation_table[p[k]][p[l]]]]

\* The analyzer's result for the table reordered by p.
ReorderedCommutative(p) == is_commutative(ReorderedSet(p), ReorderedTable(p))

ReorderedAssociative(p) == is_associative(ReorderedSet(p), ReorderedTable(p))

ReorderedIdentity(p) == find_identity_element(ReorderedSet(p), ReorderedTable(p))

ReorderedPairs(p) ==
    commutativity_counterexample_pairs(ReorderedSet(p), ReorderedTable(p))

ReorderedInverses(p) == find_inverses(ReorderedSet(p), ReorderedTable(p))

\* The booleans, the identity label and the set of counterexample pairs are
\* the same for the table reordered by any permutation.
SameUnderReordering ==
    /\ called = "is_commutative" =>
          \A p \in Reorderings(N) : ReorderedCommutative(p) = result
    /\ called = "is_associative" =>
          \A p \in Reorderings(N) : ReorderedAssociative(p) = result
    /\ called = "find_identity_element" =>
          \A p \in Reorderings(N) : ReorderedIdentity(p) = result
    /\ called = "commutativity_counterexample_pairs" =>
          \A p \in Reorderings(N) :
              Range(ReorderedPairs(p).value[2]) = Range(result.value[2])

\* C10 (as claimed) On a closed table, reordering S by any permutation and
\* permuting T consistently leaves every result the same: the booleans of
\* is_commutative and is_associative, the label of find_identity_element, the
\* mapping of find_inverses and the set of counterexample pairs.
OrigC10 ==
    IsClosed =>
        /\ SameUnderReordering
        /\ called = "find_inverses" =>
              /\ result.raised = ""
              /\ \A p \in Reorderings(N) : \A other \in ReorderedInverses(p) :
                    /\ other.raised = ""
                    /\ Range(other.value[2]) = Range(result.value[2])

(***************************************************************************)
(* The agent graph (agent.py).                                             *)
(***************************************************************************)
\* TOOLS (agent.py 36-57), by tool name, in the order of the list.
TOOLS ==
    << "wiki_search", "tavily_search", "arxiv_search", "add", "subtract",
       "multiply", "divide", "power", "sqrt", "modulus", "scrape_webpage",
       "analyze_image", "is_commutative", "commutativity_counterexample_pairs",
       "commutativity_counterexample_elements", "find_identity_element",
       "find_inverses", "transcribe_audio", "execute_source_file",
       "interact_tabular" >>

\* chat_w_tools = llm.bind_tools(TOOLS): the tools described to the model.
bound_tools == Range(TOOLS)

\* ToolNode(TOOLS): the tools the "tools" node can execute, by name.
tools_by_name == Range(TOOLS)

\* The analyzer operations, by the names of their functions in tools.py.
AnalyzerOperations ==
    { "is_commutative", "commutativity_counterexample_pairs",
      "commutativity_counterexample_elements", "is_associative",
      "find_identity_element", "find_inverses" }

\* A float with an integral value.
PyFloat(n) == <<"float", n>>

\* add (tools.py 167-177).
add(x, y) == Return(PyFloat(x + y))

\* divide (tools.py 206-218), for the arguments whose quotient is integral.
divide(x, y) ==
    IF y = 0 THEN Raise("ValueError")
    ELSE Return(PyFloat(CHOOSE q \in -1..1 : q * y = x))

\* sqrt (tools.py 234-245), for the arguments whose root is integral.
sqrt(x) ==
    IF x < 0 THEN Raise("ValueError")
    ELSE Return(PyFloat(CHOOSE r \in 0..1 : r * r = x))

\* The tool calls that assistant messages of the model hold: a call names a
\* tool and carries the numbers x, y for an arithmetic tool.  The arguments of
\* the analyzer calls of a message are set_elements and operation_table.
AnalyzerRequests == {[name |-> n, x |-> 0, y |-> 0] : n \in AnalyzerOperations}

ArithmeticRequests ==
    { [name |-> "add", x |-> 1, y |-> 0],
      [name |-> "divide", x |-> 1, y |-> 1],
      [name |-> "divide", x |-> 1, y |-> 0],
      [name |-> "sqrt", x |-> 1, y |-> 0],
      [name |-> "sqrt", x |-> -1, y |-> 0] }

Requests == AnalyzerRequests \cup ArithmeticRequests

\* The lists of tool calls of one assistant message (none: a final answer).
CallLists == UNION {[1..k -> Requests] : k \in 0..MaxCalls}

\* The (set_elements, operation_table) arguments of the analyzer calls of a
\* message: the XOR table over [0, 1], the one-element set [a], and the
\* non-closed table over [a, b] with the entry "c".
AgentInputs ==
    { << <<PyInt(0), PyInt(1)>>,
         << <<PyInt(0), PyInt(1)>>, <<PyInt(1), PyInt(0)>> >> >>,
      << <<PyStr("a")>>, << <<PyStr("a")>> >> >>,
      << <<PyStr("a"), PyStr("b")>>,
         << <<PyStr("a"), PyStr("c")>>, <<PyStr("b"), PyStr("a")>> >> >> }

\* The outcomes that running the tool of TOOLS named by a call can have.  The
\* tools that the model does not follow further return some output or raise.
run_tool(call, S, T) ==
    CASE call.name = "is_commutative" -> {is_commutative(S, T)}
      [] call.name = "commutativity_counterexample_pairs" ->
             {commutativity_counterexample_pairs(S, T)}
      [] call.name = "commutativity_counterexample_elements" ->
             {commutativity_counterexample_elements(S, T)}
      [] call.name = "find_identity_element" -> {find_identity_element(S, T)}
      [] call.name = "find_inverses" -> find_inverses(S, T)
      [] call.name = "add" -> {add(call.x, call.y)}
      [] call.name = "divide" -> {divide(call.x, call.y)}
      [] call.name = "sqrt" -> {sqrt(call.x)}
      [] OTHER -> {Return(PyStr("output")), Raise("Exception")}

\* The outcomes of one tool call in the "tools" node: a call that names none
\* of its tools runs nothing.
call_outcomes(call, S, T) ==
    IF call.name \notin tools_by_name THEN {NotCalled} ELSE run_tool(call, S, T)

\* The outcomes of the tool calls of a message, one per call.
RECURSIVE outcome_lists(_, _, _)
outcome_lists(calls, S, T) ==
    IF calls = <<>> THEN {<<>>}
    ELSE {<<first>> \o rest :
             first \in call_outcomes(Head(calls), S, T),
             rest \in outcome_lists(Tail(calls), S, T)}

\* The message with which the "tools" node answers one tool call: an error
\* message naming the valid tools when the name is not one of its tools,
\* else the outcome of the tool (a handled exception of the tool becomes an
\* error message).
tool_message(call, outcome) ==
    IF call.name \notin tools_by_name
    THEN [name |-> call.name, status |-> "error", invalid_tool |-> TRUE,
          outcome |-> NotCalled]
    ELSE [name |-> call.name,
          status |-> IF outcome.raised = "" THEN "success" ELSE "error",
          invalid_tool |-> FALSE,
          outcome |-> outcome]

\* Mutant: the condition routes to "tools" whatever the message holds.
tools_condition_always_tools(calls) == "tools"

\* tools_condition (agent.py 89-92): "tools" when the latest assistant
\* message holds tool calls, else the end of the run.
tools_condition(calls) == IF Len(calls) > 0 THEN "tools" ELSE "__end__"

\* builder.add_edge(START, "assistant") (agent.py 88).
start_edge == "assistant"

\* builder.add_edge("tools", "assistant") (agent.py 93).
tools_edge == "assistant"

\* The compiled graph at the start of a run.  ToolNode(TOOLS) (agent.py 85)
\* leaves handle_tool_errors at the default of the installed langgraph: an
\* exception of a tool becomes an error message (TRUE), or it is raised again
\* and ends the run (FALSE).
AgentInit ==
    /\ \E input \in AgentInputs :
          /\ set_elements = input[1]
          /\ operation_table = input[2]
    /\ called = "none"
    /\ result = NotCalled
    /\ node = start_edge
    /\ ran = "__start__"
    /\ steps = 0
    /\ tool_calls = <<>>
    /\ tool_messages = <<>>
    /\ handle_tool_errors \in BOOLEAN
    /\ exception = ""

\* The assistant node (agent.py 76-78) and its conditional edge.  Either
\* chat_w_tools.invoke returns a message that holds tool calls or none, and
\* the condition routes on it; or the invoke raises (the endpoint cannot be
\* reached, say): the node has no try/except, so the exception leaves the run,
\* no message is written and no edge is taken.
AssistantStep ==
    /\ node = "assistant"
    /\ steps < MaxSteps
    /\ \/ /\ \E calls \in CallLists :
                /\ tool_calls' = calls
                /\ node' = tools_condition(calls)
                /\ IF calls # <<>>
                   THEN \E input \in AgentInputs :
                            /\ set_elements' = input[1]
                            /\ operation_table' = input[2]
                   ELSE UNCHANGED <<set_elements, operation_table>>
          /\ tool_messages' = <<>>
          /\ UNCHANGED exception
       \/ /\ node' = "__raised__"
          /\ exception' = "invoke"
          /\ UNCHANGED <<set_elements, operation_table, tool_calls,
                         tool_messages>>
    /\ ran' = "assistant"
    /\ steps' = steps + 1
    /\ UNCHANGED <<called, result, handle_tool_errors>>

\* The tools node (agent.py 85): the tools of the latest assistant message
\* are run.  When a tool raises and the node does not handle the exception,
\* the exception leaves the run: no message is written and no node follows.
\* Otherwise there is one tool message per tool call, then the edge back to
\* the assistant.
ToolsStep ==
    /\ node = "tools"
    /\ steps < MaxSteps
    /\ \E outcomes \in outcome_lists(tool_calls, set_elements, operation_table) :
          IF ~handle_tool_errors
                /\ \E k \in 1..Len(tool_calls) : outcomes[k].raised # ""
          THEN /\ tool_messages' = <<>>
               /\ node' = "__raised__"
               /\ exception' = "tool"
          ELSE /\ tool_messages' =
                    [k \in 1..Len(tool_calls) |->
                        tool_message(tool_calls[k], outcomes[k])]
               /\ node' = tools_edge
               /\ UNCHANGED exception
    /\ ran' = "tools"
    /\ steps' = steps + 1
    /\ UNCHANGED <<set_elements, operation_table, called, result, tool_calls,
                   handle_tool_errors>>

\* The run loop of the compiled graph (agent.py 96): when the recursion limit
\* is reached and a node is still scheduled, the loop raises
\* GraphRecursionError instead of running the node.
RecursionLimit ==
    /\ node \in {"assistant", "tools"}
    /\ steps = MaxSteps
    /\ node' = "__raised__"
    /\ exception' = "GraphRecursionError"
    /\ UNCHANGED <<set_elements, operation_table, called, result, ran, steps,
                   tool_calls, tool_messages, handle_tool_errors>>

AgentNext == AssistantStep \/ ToolsStep \/ RecursionLimit

AgentSpec == AgentInit /\ [][AgentNext]_vars

\* The run loop of the compiled graph executes every node that is scheduled,
\* and breaks the run off at the recursion limit.
AgentFairSpec ==
    /\ AgentSpec
    /\ WF_vars(AssistantStep)
    /\ WF_vars(ToolsStep)
    /\ WF_vars(RecursionLimit)

\* C11 (as claimed) Every analyzer operation is one of the tools bound to the
\* model and one of the tools of the tools node, so a tool call that names an
\* analyzer operation is executed and not answered as an invalid tool.
OrigC11 ==
    \A k \in 1..Len(tool_messages) :
        tool_calls[k].name \in AnalyzerOperations =>
            /\ tool_calls[k].name \in bound_tools
            /\ tool_calls[k].name \in tools_by_name
            /\ ~tool_messages[k].invalid_tool

\* The run was broken off by an exception: no node is scheduled, and the
\* graph has not reached its end.
BrokenOff == node = "__raised__"

\* The latest step was the assistant, it answered with a message, and the
\* message holds no tool calls.
FinalAnswer == ran = "assistant" /\ exception = "" /\ tool_calls = <<>>

\* The run has ended: the graph has reached its end and no node is scheduled.
Ended == node = "__end__"

\* The run has terminated, one way or the other: no node is scheduled.
Terminated == node \notin {"assistant", "tools"}

\* A run starts at the assistant step: it is the node scheduled first, and
\* the node that has run after one step.
StartsAtAssistant ==
    /\ steps = 0 => node = "assistant"
    /\ steps = 1 => ran = "assistant"

RoutesAfterAssistant ==
    ran = "assistant" /\ exception = "" =>
        /\ (node = "tools") <=> (tool_calls # <<>>)
        /\ Ended <=> (tool_calls = <<>>)

\* After a tools step that completed, and unless the recursion limit broke
\* the run off since, control is back at the assistant step, with one tool
\* message per tool call.
ReturnsAfterTools ==
    ran = "tools" /\ exception = "" =>
        /\ node = "assistant"
        /\ Len(tool_messages) = Len(tool_calls)

\* A run is broken off exactly when an exception is recorded, and only in one
\* of three ways: the model call raised in the assistant step; a tool raised
\* in the tools step and the tools node does not handle exceptions; or the
\* recursion limit was reached with a node still scheduled (the tools node
\* after a message with tool calls, or the assistant after a tools step).
BrokenOffByException ==
    /\ BrokenOff <=> exception # ""
    /\ BrokenOff =>
          \/ exception = "invoke" /\ ran = "assistant"
          \/ /\ exception = "tool"
             /\ ran = "tools"
             /\ ~handle_tool_errors
             /\ tool_messages = <<>>
             /\ \E k \in 1..Len(tool_calls) :
                   \E outcome \in call_outcomes(tool_calls[k], set_elements,
                                                operation_table) :
                       outcome.raised # ""
          \/ /\ exception = "GraphRecursionError"
             /\ steps = MaxSteps
             /\ ran = "assistant" => tool_calls # <<>>
             /\ ran = "tools" => Len(tool_messages) = Len(tool_calls)

====
